---------------------------- MODULE Spec2Model ----------------------------
(***************************************************************************)
(* A model of bible-api (src/main.go): the text normalizer clearText, the  *)
(* startup of the per-translation database pool (initDatabases, main) and  *)
(* the two HTTP handlers served concurrently (getRandomVerseHandler,       *)
(* healthHandler).                                                         *)
(*                                                                         *)
(* Text is a sequence of Unicode code points (what a Go string of valid    *)
(* UTF-8 is to regexp and strings.TrimSpace): "<b>" is <<60, 98, 62>>.     *)
(***************************************************************************)
EXTENDS Integers, Sequences, FiniteSets, TLC

VARIABLES
    rawText,    \* clearText: the input text
    kept,       \* the positions of rawText that survive textCleanRegex
    cleaned,    \* clearText(rawText), once computed
    recleaned,  \* clearText(cleaned), once computed
    stage,      \* "raw" | "once" | "twice"
    mainPc,     \* where main is: "init" | "initFailed" | "listen" | "serving" | "exited"
    pending,    \* the keys of translations the loop of initDatabases has yet to visit
    outcome,    \* what became of each translation's attempt in initDatabases
    initErr,    \* the error initDatabases returned: "" | "open" | "empty"
    handles,    \* every *sql.DB that sql.Open returned, in order of creation
    dbPool,     \* the map dbPool: translation name -> index into handles
    readers,    \* the number of holders of dbMutex.RLock
    req         \* the requests, each with its handler's local variables

textVars == <<rawText, kept, cleaned, recleaned, stage>>
serverVars == <<mainPc, pending, outcome, initErr, handles, dbPool, readers, req>>
vars == <<rawText, kept, cleaned, recleaned, stage,
          mainPc, pending, outcome, initErr, handles, dbPool, readers, req>>

---------------------------------------------------------------------------
(* Bounds of the model. *)

\* Inputs of clearText are concatenations of at most MaxPieces pieces.
MaxPieces == 4

\* The number of HTTP requests the server receives in one run.
MaxReq == 2

---------------------------------------------------------------------------
(* Characters and character classes, src/main.go:43-44,49 *)

\* The code points the regular expressions name, and the ones the inputs use.
Ch == [lt |-> 60, gt |-> 62, slash |-> 47, S |-> 83, a |-> 97, i |-> 105,
       b |-> 98, one |-> 49, sp |-> 32, tab |-> 9, vt |-> 11]

\* \d of Go's regexp (RE2): ASCII digits only.
IsDigit(c) == c \in 48..57

\* \s of Go's regexp (RE2): [\t\n\f\r ], and nothing else.
IsReSpace(c) == c \in {9, 10, 12, 13, 32}

\* White space as strings.TrimSpace sees it (unicode.IsSpace): \t \n \v \f \r,
\* space, U+0085, U+00A0 and the Unicode space separators.
IsSpace(c) ==
    \/ c \in {9, 10, 11, 12, 13, 32, 133, 160, 5760}
    \/ c \in 8192..8202
    \/ c \in {8232, 8233, 8239, 8287, 12288}

\* [^ai <>] with the 'a' forgotten: anchor tags would be stripped too.
TagClassNoA(c) == c \notin {Ch.i, Ch.sp, Ch.lt, Ch.gt}

\* The class [^ai <>] of textCleanRegex.
TagClass(c) == c \notin {Ch.a, Ch.i, Ch.sp, Ch.lt, Ch.gt}

---------------------------------------------------------------------------
(* textCleanRegex = (<S>\d+</S>|</?[^ai <>]+/?>), src/main.go:43 *)

\* The character of s at position p, and -1, which is no character, beyond s.
At(s, p) == IF p \in 1..Len(s) THEN s[p] ELSE -1

\* Length of the longest run of digits of s that starts at position p.
RECURSIVE DigitRun(_, _)
DigitRun(s, p) == IF IsDigit(At(s, p)) THEN 1 + DigitRun(s, p + 1) ELSE 0

\* First alternative, <S>\d+</S>: the length of its match at p, 0 if none.
\* \d+ is greedy and what follows is no digit, so it takes the whole run.
MarkerLen(s, p) ==
    LET d == DigitRun(s, p + 3)
    IN  IF /\ At(s, p) = Ch.lt /\ At(s, p + 1) = Ch.S /\ At(s, p + 2) = Ch.gt
           /\ d >= 1
           /\ At(s, p + 3 + d) = Ch.lt /\ At(s, p + 4 + d) = Ch.slash
           /\ At(s, p + 5 + d) = Ch.S /\ At(s, p + 6 + d) = Ch.gt
        THEN d + 7
        ELSE 0

\* Second alternative, </?[^ai <>]+/?>: the lengths 2 + t[1] + t[2] + t[3] of
\* the ways to match at p, with t[1] and t[3] telling whether the optional
\* slashes are taken and t[2] >= 1 the number of class characters.
TagLens(s, p) ==
    IF At(s, p) /= Ch.lt THEN {}
    ELSE { 2 + t[1] + t[2] + t[3] : t \in
            { t \in (0..1) \X (1..(Len(s) - p)) \X (0..1) :
                /\ (t[1] = 1 => At(s, p + 1) = Ch.slash)
                /\ \A q \in (p + 1 + t[1])..(p + t[1] + t[2]) : TagClass(At(s, q))
                /\ (t[3] = 1 => At(s, p + 1 + t[1] + t[2]) = Ch.slash)
                /\ At(s, p + 1 + t[1] + t[2] + t[3]) = Ch.gt } }

\* The length of the second alternative's match at p, 0 if none.  Every way to
\* match ends at the first '>' after p, so the lengths agree.
TagLen(s, p) ==
    LET lens == TagLens(s, p)
    IN  IF lens = {} THEN 0 ELSE CHOOSE n \in lens : TRUE

\* Leftmost-first alternation: the marker if it matches at p, else the tag.
MatchLen(s, p) ==
    LET m == MarkerLen(s, p)
    IN  IF m > 0 THEN m ELSE TagLen(s, p)

\* ReplaceAllString(text, ""): the positions of s from p on that survive the
\* left-to-right scan for non-overlapping matches.
RECURSIVE KeptFrom(_, _)
KeptFrom(s, p) ==
    IF p > Len(s) THEN {}
    ELSE LET m == MatchLen(s, p)
         IN  IF m > 0 THEN KeptFrom(s, p + m) ELSE {p} \cup KeptFrom(s, p + 1)

KeptPositions(s) == KeptFrom(s, 1)

\* The subsequence of s at the positions in K, in order.
RECURSIVE Pick(_, _, _)
Pick(s, K, p) ==
    IF p > Len(s) THEN <<>>
    ELSE IF p \in K THEN <<s[p]>> \o Pick(s, K, p + 1)
    ELSE Pick(s, K, p + 1)

\* textCleanRegex.ReplaceAllString(text, ""), src/main.go:48
StripTags(s) == Pick(s, KeptPositions(s), 1)

---------------------------------------------------------------------------
(* strings.TrimSpace, src/main.go:49 *)

RECURSIVE TrimLeft(_)
TrimLeft(s) ==
    IF s /= <<>> /\ IsSpace(Head(s)) THEN TrimLeft(Tail(s)) ELSE s

RECURSIVE TrimRight(_)
TrimRight(s) ==
    IF s /= <<>> /\ IsSpace(s[Len(s)]) THEN TrimRight(SubSeq(s, 1, Len(s) - 1)) ELSE s

TrimSpace(s) == TrimRight(TrimLeft(s))

---------------------------------------------------------------------------
(* whitespaceRegex = \s+ and its ReplaceAllString(cleaned, " "), src/main.go:44,50 *)

\* Each maximal run of \s characters becomes one space: a \s character is
\* dropped when the character before it is one too, and written as a space
\* otherwise.
RECURSIVE CollapseFrom(_, _)
CollapseFrom(s, p) ==
    IF p > Len(s) THEN <<>>
    ELSE IF IsReSpace(s[p])
         THEN IF p > 1 /\ IsReSpace(s[p - 1])
              THEN CollapseFrom(s, p + 1)
              ELSE <<Ch.sp>> \o CollapseFrom(s, p + 1)
         ELSE <<s[p]>> \o CollapseFrom(s, p + 1)

\* ReplaceAllString(cleaned, "") in place of " ": the runs are deleted.
RECURSIVE DeleteWS(_)
DeleteWS(s) ==
    IF s = <<>> THEN <<>>
    ELSE IF IsReSpace(Head(s)) THEN DeleteWS(Tail(s))
    ELSE <<Head(s)>> \o DeleteWS(Tail(s))

CollapseWS(s) == CollapseFrom(s, 1)

---------------------------------------------------------------------------
(* clearText, src/main.go:47-52 *)

clearText(text) == CollapseWS(TrimSpace(StripTags(text)))

---------------------------------------------------------------------------
(* Inputs of clearText *)

\* The example of the specification:
\*   <S>1</S>In the <a href="x">beginning</a>  God created
ExampleIn ==
    <<60, 83, 62, 49, 60, 47, 83, 62, 73, 110, 32, 116, 104, 101, 32, 60, 97,
      32, 104, 114, 101, 102, 61, 34, 120, 34, 62, 98, 101, 103, 105, 110,
      110, 105, 110, 103, 60, 47, 97, 62, 32, 32, 71, 111, 100, 32, 99, 114,
      101, 97, 116, 101, 100>>

\*   In the <a href="x">beginning</a> God created
ExampleOut ==
    <<73, 110, 32, 116, 104, 101, 32, 60, 97, 32, 104, 114, 101, 102, 61, 34,
      120, 34, 62, 98, 101, 103, 105, 110, 110, 105, 110, 103, 60, 47, 97,
      62, 32, 71, 111, 100, 32, 99, 114, 101, 97, 116, 101, 100>>

\* Single characters, and the two halves of a verse-number marker.
Pieces ==
    { <<Ch.lt>>, <<Ch.gt>>, <<Ch.slash>>, <<Ch.one>>, <<Ch.a>>, <<Ch.i>>,
      <<Ch.b>>, <<Ch.sp>>, <<Ch.tab>>, <<Ch.vt>>,
      <<Ch.lt, Ch.S, Ch.gt>>, <<Ch.lt, Ch.slash, Ch.S, Ch.gt>> }

RECURSIVE Flatten(_)
Flatten(ps) == IF ps = <<>> THEN <<>> ELSE Head(ps) \o Flatten(Tail(ps))

Inputs ==
    { Flatten(ps) : ps \in UNION { [1..n -> Pieces] : n \in 0..MaxPieces } }
        \cup {ExampleIn}


---------------------------------------------------------------------------
(* The server's configuration and its environment *)

\* var translations, src/main.go:18-21
translations == [KJV |-> "assets/KJV+.Sqlite3", RST |-> "assets/RST+.Sqlite3"]

\* The keys of the translations map.
Registry == DOMAIN translations

\* The rows the random-pick query can return from a database:
\* book_number, chapter, verse, text, short_name, long_name.
\* Gen 1:1 is stored as "<S>1</S>a <b>", Jhn 3:16 as " b".
Rows ==
    { [book_number |-> 10, chapter |-> 1, verse |-> 1,
       text |-> <<60, 83, 62, 49, 60, 47, 83, 62, 97, 32, 60, 98, 62>>,
       short_name |-> "Gen", long_name |-> "Genesis"],
      [book_number |-> 500, chapter |-> 3, verse |-> 16,
       text |-> <<32, 98>>,
       short_name |-> "Jhn", long_name |-> "John"] }

\* r.Method of the requests received.
Methods == {"GET", "OPTIONS"}

\* r.URL.Path of the requests received, as strings.Split(strings.Trim(path,
\* "/"), "/") cuts it: /health, /get-random-verse/, /get-random-verse/KJV, ...
Paths ==
    { <<"health">>,
      <<"get-random-verse">>,
      <<"get-random-verse", "KJV">>,
      <<"get-random-verse", "RST">>,
      <<"get-random-verse", "XYZ">>,
      <<"get-random-verse", "KJV", "1">> }

Requests == 1..MaxReq

\* A request the server has not received yet.
NoRequest ==
    [pc |-> "new", method |-> "", path |-> <<>>, name |-> "", db |-> 0,
     err |-> "unset", queries |-> 0, status |-> 0, body |-> [kind |-> "none"]]

\* A *sql.DB as sql.Open returns it, with the pool settings of lines 70-71:
\* the database it is of, how often it was closed and how often queried.
NewHandle(name) ==
    [name |-> name, closes |-> 0, queries |-> 0, maxOpen |-> 25, maxIdle |-> 5]

---------------------------------------------------------------------------
(* initDatabases, src/main.go:55-89 *)

ServerInit ==
    /\ mainPc = "init"
    /\ pending = Registry
    /\ outcome = [n \in Registry |-> "none"]
    /\ initErr = ""
    /\ handles = <<>>
    /\ dbPool = <<>>
    /\ readers = 0
    /\ req = [r \in Requests |-> NoRequest]

\* os.Stat says the file does not exist: a warning, and the next translation.
InitMissing(name) ==
    /\ mainPc = "init"
    /\ name \in pending
    /\ pending' = pending \ {name}
    /\ outcome' = [outcome EXCEPT ![name] = "missing"]
    /\ UNCHANGED <<initErr, handles, dbPool, mainPc, readers, req>>
    /\ UNCHANGED textVars

\* sql.Open fails: initDatabases returns the error at once.
InitOpenError(name) ==
    /\ mainPc = "init"
    /\ name \in pending
    /\ pending' = pending \ {name}
    /\ outcome' = [outcome EXCEPT ![name] = "openerr"]
    /\ initErr' = "open"
    /\ mainPc' = "initFailed"
    /\ UNCHANGED <<handles, dbPool, readers, req>>
    /\ UNCHANGED textVars

\* db.Ping fails although the handle is still put in dbPool.
InitPingFailRegistered(name) ==
    /\ mainPc = "init"
    /\ name \in pending
    /\ pending' = pending \ {name}
    /\ outcome' = [outcome EXCEPT ![name] = "pingfail"]
    /\ handles' = Append(handles, [NewHandle(name) EXCEPT !.closes = 1])
    /\ dbPool' = [n \in DOMAIN dbPool \cup {name} |->
                    IF n = name THEN Len(handles) + 1 ELSE dbPool[n]]
    /\ UNCHANGED <<initErr, mainPc, readers, req>>
    /\ UNCHANGED textVars

\* db.Ping fails: the handle is closed, a warning, and the next translation.
InitPingFail(name) ==
    /\ mainPc = "init"
    /\ name \in pending
    /\ pending' = pending \ {name}
    /\ outcome' = [outcome EXCEPT ![name] = "pingfail"]
    /\ handles' = Append(handles, [NewHandle(name) EXCEPT !.closes = 1])
    /\ UNCHANGED <<initErr, dbPool, mainPc, readers, req>>
    /\ UNCHANGED textVars

\* The file is there, opens and answers the ping: dbPool[name] = db.
InitRegister(name) ==
    /\ mainPc = "init"
    /\ name \in pending
    /\ pending' = pending \ {name}
    /\ outcome' = [outcome EXCEPT ![name] = "ok"]
    /\ handles' = Append(handles, NewHandle(name))
    /\ dbPool' = [n \in DOMAIN dbPool \cup {name} |->
                    IF n = name THEN Len(handles) + 1 ELSE dbPool[n]]
    /\ UNCHANGED <<initErr, mainPc, readers, req>>
    /\ UNCHANGED textVars

\* The loop is over: an error if dbPool is empty, nil otherwise.
InitEnd ==
    /\ mainPc = "init"
    /\ pending = {}
    /\ IF DOMAIN dbPool = {}
       THEN initErr' = "empty" /\ mainPc' = "initFailed"
       ELSE initErr' = "" /\ mainPc' = "listen"
    /\ UNCHANGED <<pending, outcome, handles, dbPool, readers, req>>
    /\ UNCHANGED textVars

---------------------------------------------------------------------------
(* main, src/main.go:211-248 *)

\* The error of initDatabases only logged: main goes on to listen.
MainIgnoreInitError ==
    /\ mainPc = "initFailed"
    /\ mainPc' = "listen"
    /\ UNCHANGED <<pending, outcome, initErr, handles, dbPool, readers, req>>
    /\ UNCHANGED textVars

\* log.Fatalf on the error of initDatabases: os.Exit(1), at once.
MainFatalInit ==
    /\ mainPc = "initFailed"
    /\ mainPc' = "exited"
    /\ UNCHANGED <<pending, outcome, initErr, handles, dbPool, readers, req>>
    /\ UNCHANGED textVars

\* The deferred close is registered, the routes are, and ListenAndServe
\* starts to accept requests.
MainServe ==
    /\ mainPc = "listen"
    /\ mainPc' = "serving"
    /\ UNCHANGED <<pending, outcome, initErr, handles, dbPool, readers, req>>
    /\ UNCHANGED textVars

\* ListenAndServe returns (its error is never nil) and log.Fatalf exits the
\* process with os.Exit(1): deferred functions do not run, so the deferred
\* loop over dbPool that closes the handles is never executed.
MainFatalServe ==
    /\ mainPc = "serving"
    /\ mainPc' = "exited"
    /\ UNCHANGED <<pending, outcome, initErr, handles, dbPool, readers, req>>
    /\ UNCHANGED textVars

---------------------------------------------------------------------------
(* respondWithError and the handlers' responses, src/main.go:156-161 *)

\* ErrorResponse{Error: message}, the message as the pieces Sprintf joins.
ErrorBody(message) == [kind |-> "error", error |-> message]

Respond(q, statusCode, body) ==
    [q EXCEPT !.pc = "done", !.status = statusCode, !.body = body]

\* The verse record of lines 119-147: the row's columns, the cleaned text and
\* the requested translation's name.
VerseBody(name, row) ==
    [kind |-> "verse", translation |-> name, book_number |-> row.book_number,
     book_title |-> row.long_name, book_title_short |-> row.short_name,
     chapter |-> row.chapter, verse |-> row.verse, text |-> clearText(row.text)]

\* The health body that lists the configured translations, not the pooled.
HealthBodyOfRegistry(pool) ==
    [kind |-> "health", status |-> "ok", translations |-> Registry]

\* The body of healthHandler: the keys of dbPool, in no particular order.
HealthBody(pool) ==
    [kind |-> "health", status |-> "ok", translations |-> DOMAIN pool]

---------------------------------------------------------------------------
(* corsMiddleware, loggingMiddleware and the start of the two handlers,     *)
(* src/main.go:92-106, 164, 180-209, 227-228                                *)

\* Request r arrives with a method and a path.  An OPTIONS request is answered
\* by corsMiddleware with 200 and no body.  /health goes to healthHandler.
\* Under /get-random-verse/ the handler answers 400 unless the path has two
\* parts, 404 unless the second is a key of translations, and goes on to look
\* the database up otherwise.
Receive(r, method, path) ==
    /\ mainPc = "serving"
    /\ req[r].pc = "new"
    /\ LET q == [req[r] EXCEPT !.method = method, !.path = path]
       IN  req' = [req EXCEPT ![r] =
             IF method = "OPTIONS"
             THEN Respond(q, 200, [kind |-> "none"])
             ELSE IF path[1] = "health"
             THEN [q EXCEPT !.pc = "health"]
             ELSE IF Len(path) /= 2
             THEN Respond(q, 400, ErrorBody(<<"Invalid URL format">>))
             ELSE IF path[2] \notin Registry
             THEN Respond([q EXCEPT !.name = path[2]], 404, ErrorBody(<<"Translation '", path[2], "' not found">>))
             ELSE [q EXCEPT !.name = path[2], !.pc = "lookup"]]
    /\ UNCHANGED <<mainPc, pending, outcome, initErr, handles, dbPool, readers>>
    /\ UNCHANGED textVars

---------------------------------------------------------------------------
(* getRandomVerseHandler from the lookup on, src/main.go:108-154 *)

\* dbMutex.RLock()
VerseRLock(r) ==
    /\ mainPc = "serving"
    /\ req[r].pc = "lookup"
    /\ readers' = readers + 1
    /\ req' = [req EXCEPT ![r].pc = "locked"]
    /\ UNCHANGED <<mainPc, pending, outcome, initErr, handles, dbPool>>
    /\ UNCHANGED textVars

\* The lookup that opens a missing translation's database on demand.
VerseReadLazyOpen(r) ==
    /\ mainPc = "serving"
    /\ req[r].pc = "locked"
    /\ readers' = readers - 1
    /\ IF req[r].name \in DOMAIN dbPool
       THEN /\ req' = [req EXCEPT ![r].db = dbPool[req[r].name], ![r].pc = "query"]
            /\ UNCHANGED <<handles, dbPool>>
       ELSE /\ handles' = Append(handles, NewHandle(req[r].name))
            /\ dbPool' = [n \in DOMAIN dbPool \cup {req[r].name} |->
                            IF n = req[r].name THEN Len(handles) + 1 ELSE dbPool[n]]
            /\ req' = [req EXCEPT ![r].db = Len(handles) + 1, ![r].pc = "query"]
    /\ UNCHANGED <<mainPc, pending, outcome, initErr>>
    /\ UNCHANGED textVars

\* The lookup that answers 500 where 503 is due.
VerseReadWrongStatus(r) ==
    /\ mainPc = "serving"
    /\ req[r].pc = "locked"
    /\ readers' = readers - 1
    /\ req' = [req EXCEPT ![r] =
         IF req[r].name \in DOMAIN dbPool
         THEN [req[r] EXCEPT !.db = dbPool[req[r].name], !.pc = "query"]
         ELSE Respond(req[r], 500, ErrorBody(<<"Database for translation '", req[r].name, "' is not available">>))]
    /\ UNCHANGED <<mainPc, pending, outcome, initErr, handles, dbPool>>
    /\ UNCHANGED textVars

\* db, exists := dbPool[translationName]; dbMutex.RUnlock(); 503 if !exists.
VerseRead(r) ==
    /\ mainPc = "serving"
    /\ req[r].pc = "locked"
    /\ readers' = readers - 1
    /\ req' = [req EXCEPT ![r] =
         IF req[r].name \in DOMAIN dbPool
         THEN [req[r] EXCEPT !.db = dbPool[req[r].name], !.pc = "query"]
         ELSE Respond(req[r], 503, ErrorBody(<<"Database for translation '", req[r].name, "' is not available">>))]
    /\ UNCHANGED <<mainPc, pending, outcome, initErr, handles, dbPool>>
    /\ UNCHANGED textVars

\* A failed query after which the handler closes every pooled database.
VerseQueryFailClosesPool(r) ==
    /\ mainPc = "serving"
    /\ req[r].pc = "query"
    /\ handles' = [h \in DOMAIN handles |->
                     [handles[h] EXCEPT
                        !.queries = IF h = req[r].db THEN @ + 1 ELSE @,
                        !.closes = @ + 1]]
    /\ req' = [req EXCEPT ![r] =
         Respond([req[r] EXCEPT !.err = "err", !.queries = @ + 1],
                 500, ErrorBody(<<"Failed to retrieve verse">>))]
    /\ UNCHANGED <<mainPc, pending, outcome, initErr, dbPool, readers>>
    /\ UNCHANGED textVars

\* db.QueryRow(query).Scan(...) returns an error: it is logged, and 500.
VerseQueryFail(r) ==
    /\ mainPc = "serving"
    /\ req[r].pc = "query"
    /\ handles' = [handles EXCEPT ![req[r].db].queries = @ + 1]
    /\ req' = [req EXCEPT ![r] =
         Respond([req[r] EXCEPT !.err = "err", !.queries = @ + 1],
                 500, ErrorBody(<<"Failed to retrieve verse">>))]
    /\ UNCHANGED <<mainPc, pending, outcome, initErr, dbPool, readers>>
    /\ UNCHANGED textVars

\* db.QueryRow(query).Scan(...) returns a row, which an open database can:
\* the text is cleaned, the translation set, and the verse encoded with 200.
VerseQueryRow(r, row) ==
    /\ mainPc = "serving"
    /\ req[r].pc = "query"
    /\ handles[req[r].db].closes = 0
    /\ handles' = [handles EXCEPT ![req[r].db].queries = @ + 1]
    /\ req' = [req EXCEPT ![r] =
         Respond([req[r] EXCEPT !.err = "nil", !.queries = @ + 1],
                 200, VerseBody(req[r].name, row))]
    /\ UNCHANGED <<mainPc, pending, outcome, initErr, dbPool, readers>>
    /\ UNCHANGED textVars

---------------------------------------------------------------------------
(* healthHandler, src/main.go:164-177 *)

\* dbMutex.RLock()
HealthRLock(r) ==
    /\ mainPc = "serving"
    /\ req[r].pc = "health"
    /\ readers' = readers + 1
    /\ req' = [req EXCEPT ![r].pc = "hlocked"]
    /\ UNCHANGED <<mainPc, pending, outcome, initErr, handles, dbPool>>
    /\ UNCHANGED textVars

\* The names of dbPool are collected, dbMutex.RUnlock(), and the body encoded.
HealthRead(r) ==
    /\ mainPc = "serving"
    /\ req[r].pc = "hlocked"
    /\ readers' = readers - 1
    /\ req' = [req EXCEPT ![r] = Respond(req[r], 200, HealthBody(dbPool))]
    /\ UNCHANGED <<mainPc, pending, outcome, initErr, handles, dbPool>>
    /\ UNCHANGED textVars

---------------------------------------------------------------------------
(* The server: startup, then requests served concurrently until the process *)
(* exits.                                                                   *)

Init ==
    /\ ServerInit
    /\ rawText = <<>> /\ kept = {} /\ cleaned = <<>> /\ recleaned = <<>>
    /\ stage = "raw"

Next ==
    \/ \E name \in Registry :
         \/ InitMissing(name)
         \/ InitOpenError(name)
         \/ InitPingFail(name)
         \/ InitRegister(name)
    \/ InitEnd
    \/ MainFatalInit
    \/ MainServe
    \/ MainFatalServe
    \/ \E r \in Requests :
         \/ \E method \in Methods, path \in Paths : Receive(r, method, path)
         \/ VerseRLock(r)
         \/ VerseRead(r)
         \/ VerseQueryFail(r)
         \/ \E row \in Rows : VerseQueryRow(r, row)
         \/ HealthRLock(r)
         \/ HealthRead(r)

Spec == Init /\ [][Next]_vars

---------------------------------------------------------------------------
(* The normalizer applied to an input, and applied again to its output. *)

TextInit ==
    /\ ServerInit
    /\ rawText \in Inputs
    /\ kept = {}
    /\ cleaned = <<>>
    /\ recleaned = <<>>
    /\ stage = "raw"

\* verse.Text = clearText(rawText), src/main.go:146
ClearTextOnce ==
    /\ stage = "raw"
    /\ kept' = KeptPositions(rawText)
    /\ cleaned' = clearText(rawText)
    /\ stage' = "once"
    /\ UNCHANGED <<rawText, recleaned>>
    /\ UNCHANGED serverVars

\* clearText applied to its own output
ClearTextTwice ==
    /\ stage = "once"
    /\ recleaned' = clearText(cleaned)
    /\ stage' = "twice"
    /\ UNCHANGED <<rawText, kept, cleaned>>
    /\ UNCHANGED serverVars

TextNext == ClearTextOnce \/ ClearTextTwice

SpecText == TextInit /\ [][TextNext]_vars

---------------------------------------------------------------------------
(* Properties of the server, checked under Spec *)

\* Request r went through getRandomVerseHandler with a path of two parts.
VerseRequest(r) ==
    /\ req[r].pc = "done"
    /\ req[r].method /= "OPTIONS"
    /\ Len(req[r].path) = 2
    /\ req[r].path[1] = "get-random-verse"

\* Request r went through healthHandler.
HealthRequest(r) ==
    /\ req[r].pc = "done"
    /\ req[r].method /= "OPTIONS"
    /\ req[r].path = <<"health">>

\* C1: a request for /get-random-verse/{t} that reaches the handler (an
\* OPTIONS preflight is answered by the CORS middleware before it) is answered
\* 404 if t is no key of translations, else 503 if t has no entry in dbPool,
\* else 500 if the query failed, else 200 with a verse whose translation is t;
\* the request issued one query in the last two cases and none, with no handle
\* borrowed, otherwise, and no database saw a query that no request issued.
C1_StatusOrder ==
    /\ \A r \in Requests : VerseRequest(r) =>
         LET t == req[r].path[2]
             q == req[r]
         IN  /\ q.status =
                  IF t \notin Registry THEN 404
                  ELSE IF t \notin DOMAIN dbPool THEN 503
                  ELSE IF q.err = "err" THEN 500
                  ELSE 200
             /\ q.status = 200 => q.body.kind = "verse" /\ q.body.translation = t
             /\ q.status /= 200 => q.body.kind = "error"
             /\ q.queries = (IF q.status \in {500, 200} THEN 1 ELSE 0)
             /\ q.status \in {404, 503} => q.db = 0 /\ q.err = "unset"
    /\ \A h \in DOMAIN handles :
         handles[h].queries =
            Cardinality({r \in Requests : req[r].db = h /\ req[r].queries = 1})

\* C1's case: one request was answered 503 and another 500.
C1_Witness ==
    \E r1, r2 \in Requests :
        /\ VerseRequest(r1) /\ req[r1].status = 503 /\ req[r1].queries = 0
        /\ VerseRequest(r2) /\ req[r2].status = 500 /\ req[r2].queries = 1

\* C2: the translations that GET /health lists are exactly the keys of dbPool.
C2_HealthListsPool ==
    \A r \in Requests : HealthRequest(r) =>
        /\ req[r].status = 200
        /\ req[r].body.kind = "health"
        /\ req[r].body.translations = DOMAIN dbPool

\* C2's case: /health answered while a registered translation is not pooled.
C2_Witness ==
    \E r \in Requests :
        /\ HealthRequest(r)
        /\ \E n \in Registry : outcome[n] \in {"missing", "pingfail"}
        /\ req[r].body.translations /= Registry
        /\ req[r].body.translations /= {}

\* A step in which some request's query fails leaves dbPool, the guard, every
\* other request and every database handle as they were, but for the count of
\* queries of the handle that was queried.
FailureIsLocal ==
    \A r \in Requests :
        (req[r].pc = "query" /\ req'[r].err = "err") =>
            /\ dbPool' = dbPool
            /\ readers' = readers
            /\ \A r2 \in Requests \ {r} : req'[r2] = req[r2]
            /\ DOMAIN handles' = DOMAIN handles
            /\ \A h \in DOMAIN handles :
                 /\ handles'[h].closes = handles[h].closes
                 /\ h /= req[r].db => handles'[h] = handles[h]

\* A request about to query holds the open handle dbPool has for its
\* translation, and a request whose query returned a row answered 200 with
\* the verse of its own translation.
QueriesUnaffected ==
    \A r \in Requests :
        /\ req[r].pc = "query" =>
             /\ req[r].name \in DOMAIN dbPool
             /\ req[r].db = dbPool[req[r].name]
             /\ handles[req[r].db].closes = 0
        /\ req[r].err = "nil" =>
             /\ req[r].status = 200
             /\ req[r].body.kind = "verse"
             /\ req[r].body.translation = req[r].name

\* C3: a failed retrieval on one translation changes no shared state, and a
\* request for another translation keeps an open handle and, when its own
\* retrieval succeeds, answers 200 with a verse.
C3_Isolation == []QueriesUnaffected /\ [][FailureIsLocal]_vars

\* C3's case: of two requests for different pooled translations, one failed
\* with 500 and the other answered 200.
C3_Witness ==
    \E r1, r2 \in Requests :
        /\ req[r1].name /= req[r2].name
        /\ {req[r1].name, req[r2].name} \subseteq DOMAIN dbPool
        /\ VerseRequest(r1) /\ req[r1].status = 500
        /\ VerseRequest(r2) /\ req[r2].status = 200

\* initDatabases has returned.
InitReturned == mainPc /= "init"

\* What holds of dbPool and the handles whatever way initDatabases returned:
\* dbPool holds exactly the translations that opened and answered the ping,
\* and a handle that failed the ping was closed once and is not in dbPool.
PoolIsWhatPassed ==
    /\ DOMAIN dbPool = {n \in Registry : outcome[n] = "ok"}
    /\ \A n \in DOMAIN dbPool : handles[dbPool[n]].name = n
    /\ \A n \in Registry : outcome[n] \in {"pingfail", "ok"} <=>
                               \E h \in DOMAIN handles : handles[h].name = n
    /\ \A h \in DOMAIN handles : outcome[handles[h].name] = "pingfail" =>
         /\ handles[h].closes = 1
         /\ \A n \in DOMAIN dbPool : dbPool[n] /= h

\* C4, as stated: once initDatabases has returned, every translation was
\* attempted, it failed exactly if dbPool is empty, and dbPool holds exactly
\* the translations that opened and answered the ping.
C4_AsStated ==
    InitReturned =>
        /\ \A n \in Registry : outcome[n] /= "none"
        /\ initErr /= "" <=> DOMAIN dbPool = {}
        /\ PoolIsWhatPassed

\* C4, amended: a missing file or a failed ping skips only that translation;
\* a failed sql.Open makes initDatabases return its error at once, whatever
\* is left to attempt and whatever is in dbPool; when no open failed, every
\* translation was attempted and initDatabases failed exactly if dbPool is
\* empty.
C4_InitOutcome ==
    InitReturned =>
        /\ PoolIsWhatPassed
        /\ IF \E n \in Registry : outcome[n] = "openerr"
           THEN /\ initErr = "open"
                /\ Cardinality({n \in Registry : outcome[n] = "openerr"}) = 1
                /\ pending = {n \in Registry : outcome[n] = "none"}
           ELSE /\ \A n \in Registry : outcome[n] \in {"missing", "pingfail", "ok"}
                /\ initErr \in {"", "empty"}
                /\ initErr = "empty" <=> DOMAIN dbPool = {}

\* C4's case: initDatabases succeeded with one translation pooled and the
\* other skipped after a failed ping.
C4_Witness ==
    /\ mainPc = "listen"
    /\ initErr = ""
    /\ \E n, m \in Registry : outcome[n] = "ok" /\ outcome[m] = "pingfail"

\* C5: when the process has terminated, every handle that was opened has
\* been closed exactly once.
C5_ReleasedOnce ==
    mainPc = "exited" => \A h \in DOMAIN handles : handles[h].closes = 1

\* C9: the keys of dbPool are keys of translations, and once initDatabases
\* has returned no step adds, removes or replaces an entry of dbPool or
\* changes which database a handle is.
C9_PoolFrozen ==
    /\ [](DOMAIN dbPool \subseteq Registry)
    /\ [][InitReturned =>
            /\ dbPool' = dbPool
            /\ \A n \in DOMAIN dbPool : handles'[dbPool[n]].name = n]_vars

\* C9's case: while serving, a registered translation is absent from dbPool,
\* one request was answered 503 for it and another 200 from a pooled one.
C9_Witness ==
    /\ mainPc = "serving"
    /\ DOMAIN dbPool /= Registry
    /\ \E r1, r2 \in Requests :
        /\ VerseRequest(r1) /\ req[r1].status = 503
        /\ VerseRequest(r2) /\ req[r2].status = 200

\* C10: a request is received only after initDatabases returned nil, with
\* every translation attempted and dbPool not empty; when initDatabases
\* returned an error, the process serves nothing.
C10_ServeAfterInit ==
    /\ (\E r \in Requests : req[r].pc /= "new") =>
          /\ mainPc \in {"serving", "exited"}
          /\ initErr = ""
          /\ pending = {}
          /\ DOMAIN dbPool /= {}
    /\ initErr /= "" =>
          /\ mainPc \in {"initFailed", "exited"}
          /\ \A r \in Requests : req[r] = NoRequest

\* C10's case: a request is answered while the server runs with one
\* translation skipped at startup.
C10_Witness ==
    /\ mainPc = "serving"
    /\ \E n \in Registry : outcome[n] = "missing"
    /\ \E r \in Requests : VerseRequest(r) /\ req[r].status = 200

---------------------------------------------------------------------------
(* Properties of the normalizer, checked under SpecText *)

\* s[i..j] is a tag: '<' at i, '>' at j, and neither in between.
TagSpan(s, i, j) ==
    /\ 1 <= i /\ i < j /\ j <= Len(s)
    /\ s[i] = Ch.lt /\ s[j] = Ch.gt
    /\ \A q \in (i + 1)..(j - 1) : s[q] \notin {Ch.lt, Ch.gt}

\* Where the name of the tag s[i..j] starts: after '<', or after '</'.
NameStart(s, i) == IF At(s, i + 1) = Ch.slash THEN i + 2 ELSE i + 1

\* The tag s[i..j] has a name: a first character that is neither white space
\* nor the '/' or '>' that ends a tag.
HasName(s, i, j) ==
    /\ NameStart(s, i) < j
    /\ ~IsSpace(s[NameStart(s, i)])
    /\ s[NameStart(s, i)] /= Ch.slash

\* s[i..j] is a verse-number marker <S>digits</S>: "<S>" at i..i+2, "</S>" at
\* j-3..j and one or more digits between, so j - i is 7 at least.
MarkerSpan(s, i, j) ==
    /\ 1 <= i /\ j <= Len(s) /\ j - i >= 7
    /\ SubSeq(s, i, i + 2) = <<Ch.lt, Ch.S, Ch.gt>>
    /\ SubSeq(s, j - 3, j) = <<Ch.lt, Ch.slash, Ch.S, Ch.gt>>
    /\ \A q \in (i + 3)..(j - 4) : s[q] \in 48..57

\* Every verse-number marker of the input is removed, and the example of the
\* specification comes out as stated.
MarkersRemoved ==
    /\ \A i, j \in 1..Len(rawText) :
         MarkerSpan(rawText, i, j) => (i..j) \cap kept = {}
    /\ rawText = ExampleIn => cleaned = ExampleOut

\* C6, as stated: every marker is removed, every tag whose name does not
\* start with 'a' or 'i' is removed, and every tag whose name does is kept.
C6_AsStated ==
    stage /= "raw" =>
        /\ MarkersRemoved
        /\ \A i, j \in 1..Len(rawText) :
             (TagSpan(rawText, i, j) /\ HasName(rawText, i, j)) =>
                IF rawText[NameStart(rawText, i)] \in {Ch.a, Ch.i}
                THEN (i..j) \subseteq kept
                ELSE (i..j) \cap kept = {}

\* C6, amended: every marker is removed; a tag is removed exactly if there
\* is at least one character between its '<' and '>' and none of them is
\* 'a', 'i' or a space, wherever in the tag; every other tag is kept whole,
\* so a tag whose name starts with 'a' or 'i' is kept, and so are <ba> and
\* <b c>.
C6_TagRule ==
    stage /= "raw" =>
        /\ MarkersRemoved
        /\ \A i, j \in 1..Len(rawText) :
             TagSpan(rawText, i, j) =>
                IF j > i + 1 /\ \A q \in (i + 1)..(j - 1) :
                                   rawText[q] \notin {Ch.a, Ch.i, Ch.sp}
                THEN (i..j) \cap kept = {}
                ELSE (i..j) \subseteq kept

\* C6's case: the tag <ba>, whose name starts with 'b', comes out untouched.
C6_Witness ==
    /\ stage = "once"
    /\ rawText = <<Ch.lt, Ch.b, Ch.a, Ch.gt>>
    /\ kept = 1..4
    /\ cleaned = rawText

\* C7, as stated: cleaning a cleaned text changes nothing.
C7_AsStated == stage = "twice" => recleaned = cleaned

\* No '<' of s is followed by another '<' before the next '>'.
NoNestedOpen(s) ==
    \A i, j \in 1..Len(s) :
        (i < j /\ s[i] = Ch.lt /\ s[j] = Ch.lt) =>
            \E q \in (i + 1)..(j - 1) : s[q] = Ch.gt

\* C7, amended: cleaning a cleaned text changes nothing when in the input no
\* '<' is followed by another '<' before the next '>'.
C7_IdempotentUnnested ==
    (stage = "twice" /\ NoNestedOpen(rawText)) => recleaned = cleaned

\* C7's case: an input without nested '<' from which a tag was removed and
\* text is left, cleaned twice.
C7_Witness ==
    /\ stage = "twice"
    /\ NoNestedOpen(rawText)
    /\ kept /= 1..Len(rawText)
    /\ cleaned /= <<>>
    /\ cleaned /= rawText
    /\ recleaned = cleaned

\* C8: the output neither starts nor ends with white space and has no two
\* white space characters in a row, white space being what TrimSpace trims.
C8_WhitespaceLaw ==
    stage /= "raw" =>
        /\ cleaned /= <<>> => ~IsSpace(cleaned[1]) /\ ~IsSpace(cleaned[Len(cleaned)])
        /\ \A p \in 1..(Len(cleaned) - 1) :
             ~(IsSpace(cleaned[p]) /\ IsSpace(cleaned[p + 1]))

=============================================================================
